---- MODULE Spec2Model ----
(***************************************************************************)
(* A model of aeternity/aens.py: the AEName object (one instance, fixed    *)
(* domain), the node gateway (EpochClient) and the signer (keypair) it     *)
(* calls, and the chain whose height the gateway reports.                  *)
(*                                                                         *)
(* Every method of AEName is an operator from the state record before the  *)
(* call to the state record after it; an action applies one method to the  *)
(* current state with inputs (arguments, gateway responses, failures)      *)
(* drawn from small sets.  A Python dict is a set of <<key, value>> pairs, *)
(* a Python str that the code inspects is a sequence of characters.        *)
(***************************************************************************)
EXTENDS Integers, Sequences, FiniteSets, TLC

\* ------------------------------------------------------------- bounds
MaxHeight == 2      \* chain heights are 0..MaxHeight
MaxSalt == 1        \* salts are 0..MaxSalt (standing for 0..2^64)

\* ---------------------------------------------------------- constants
None == -1          \* Python's None in an integer-valued field
NameHash == 77      \* self.name_hash, the encoded domain
Commitment0 == 40   \* the gateway's commitment for salt s is Commitment0 + s

\* class NameStatus
REVOKED == "REVOKED"
UNKNOWN == "UNKNOWN"
AVAILABLE == "AVAILABLE"
PRECLAIMED == "PRECLAIMED"
CLAIMED == "CLAIMED"
TRANSFERRED == "TRANSFERRED"
NameStatus == {REVOKED, UNKNOWN, AVAILABLE, PRECLAIMED, CLAIMED, TRANSFERRED}

VARIABLES
    status,                      \* self.status
    preclaimed_block_height,     \* self.preclaimed_block_height (None or a height)
    preclaimed_commitment_hash,  \* self.preclaimed_commitment_hash
    preclaim_salt,               \* self.preclaim_salt (None or a salt)
    name_ttl,                    \* self.name_ttl
    pointers,                    \* self.pointers
    height,                      \* the chain height the gateway reports
    pc,                          \* the caller: "idle" between calls, "waiting" inside
                                 \* wait_for_next_block, "returned" when a call has ended
    wait_from,                   \* the height at which the pending wait began
    op,                          \* the method the caller has invoked ("none" between calls)
    arg,                         \* its arguments
    trace,                       \* the method entries and collaborator calls it made
    result,                      \* what it raised or returned
    preclaim_called,             \* preclaim has been entered on this instance
    last_preclaim_tx             \* the last preclaim transaction the gateway accepted

vars == <<status, preclaimed_block_height, preclaimed_commitment_hash, preclaim_salt,
          name_ttl, pointers, height, pc, wait_from, op, arg, trace, result,
          preclaim_called, last_preclaim_tx>>

\* ------------------------------------------------------------ helpers
\* dict access: `key in d` and d[key]
HasKey(d, k) == \E p \in d : p[1] = k
Get(d, k) == (CHOOSE p \in d : p[1] = k)[2]

\* str.startswith(prefix)
StartsWith(str, prefix) ==
    /\ Len(str) >= Len(prefix)
    /\ SubSeq(str, 1, Len(prefix)) = prefix

NoTx == [salt |-> None, commitment |-> None, h |-> None]
NoTarget == [kind |-> "none", id |-> <<>>]
NoArg == [salt |-> None, rnd |-> None, target |-> NoTarget]
NoResult == [exc |-> "none", payload |-> {}, ret |-> <<>>]

\* The state as one record, and the assignment of a record to the state.
Cur ==
    [status |-> status,
     preclaimed_block_height |-> preclaimed_block_height,
     preclaimed_commitment_hash |-> preclaimed_commitment_hash,
     preclaim_salt |-> preclaim_salt,
     name_ttl |-> name_ttl,
     pointers |-> pointers,
     height |-> height,
     pc |-> pc,
     wait_from |-> wait_from,
     op |-> op,
     arg |-> arg,
     trace |-> trace,
     result |-> result,
     preclaim_called |-> preclaim_called,
     last_preclaim_tx |-> last_preclaim_tx]

Becomes(s) ==
    /\ status' = s.status
    /\ preclaimed_block_height' = s.preclaimed_block_height
    /\ preclaimed_commitment_hash' = s.preclaimed_commitment_hash
    /\ preclaim_salt' = s.preclaim_salt
    /\ name_ttl' = s.name_ttl
    /\ pointers' = s.pointers
    /\ height' = s.height
    /\ pc' = s.pc
    /\ wait_from' = s.wait_from
    /\ op' = s.op
    /\ arg' = s.arg
    /\ trace' = s.trace
    /\ result' = s.result
    /\ preclaim_called' = s.preclaim_called
    /\ last_preclaim_tx' = s.last_preclaim_tx

\* The caller invokes method m with arguments a.
Begin(s, m, a) ==
    [s EXCEPT !.op = m, !.arg = a, !.trace = <<>>, !.result = NoResult]

\* The call ends, unless it is suspended in wait_for_next_block.
End(s) == IF s.pc = "waiting" THEN s ELSE [s EXCEPT !.pc = "returned"]

\* A method is entered.
Enter(s, m) ==
    [s EXCEPT !.trace = Append(@, [call |-> m, h |-> s.height, v |-> None, r |-> {}])]

\* A collaborator is called with argument v and answers r.
Call(s, c, v, r) ==
    [s EXCEPT !.trace = Append(@, [call |-> c, h |-> s.height, v |-> v, r |-> r])]

\* Exception e is raised with payload p; the trace keeps the event.
Raise(s, e, p) ==
    [s EXCEPT !.result = [exc |-> e, payload |-> p, ret |-> <<>>],
              !.trace = Append(@, [call |-> e, h |-> s.height, v |-> None, r |-> p])]
Return(s, r) == [s EXCEPT !.result = [exc |-> "none", payload |-> {}, ret |-> r]]
Raised(s) == s.result.exc # "none"

\* The chain grows by d blocks while a method runs.
Advance(s, d) == [s EXCEPT !.height = @ + d]

\* ------------------------------------------------------------ inputs
Heights == 0..MaxHeight
Salts == 0..MaxSalt
TTLs == {10}
PointerTexts == {"[]", "{\"account_pubkey\": \"ak$A\"}"}
AkA == <<"a", "k", "$", "A">>     \* an account address
OkB == <<"o", "k", "$", "B">>     \* an oracle id
NoId == <<>>                      \* oracle_id of an Oracle not registered (None)
\* the gateway's tx_hash for the transaction it builds from value v
PreclaimTxHash(v) == 100 + v
ClaimTxHash(v) == 200 + v
\* what a collaborator call that fails answers, and what 'name' answers for a
\* name the chain does not have (NameNotAvailable)
Failure == {<<"raises", 500>>}
NotFound == {<<"raises", 404>>}
\* the gateway's answer to commitment-hash: with or without 'commitment'
CommitmentResponse(salt) == {<<"commitment", Commitment0 + salt>>}
RejectResponse == {<<"reason", 1>>}
EchoResponse == {<<"name_hash", NameHash>>}

\* ------------------------------------------------------- AEName.claim
\* (variant: the comparison taken as strict)
TooEarlyStrict(pbh, current_block_height) == pbh > current_block_height

\* self.preclaimed_block_height >= current_block_height
TooEarly(pbh, current_block_height) == pbh >= current_block_height

\* (variant: the preclaim judged missing from the status)
NoPreclaimByStatus(s) == s.status \in {UNKNOWN, AVAILABLE}

\* self.preclaimed_block_height is None
NoPreclaim(s) == s.preclaimed_block_height = None

\* (variant: the status assigned before the transaction is sent)
claim_eager(s0, in) ==
    LET s == Enter(s0, "claim") IN
    IF NoPreclaim(s)
    THEN Raise(s, "MissingPreclaim", {})
    ELSE
    IF in.fail = "get_height"
    THEN Raise(Call(s, "get_height", None, Failure), "GatewayError", {})
    ELSE
    LET s1 == Call(s, "get_height", None, {<<"height", s.height>>}) IN
    IF TooEarly(s.preclaimed_block_height, s.height)
    THEN Raise(s1, "TooEarlyClaim", {})
    ELSE
    LET s2 == [Advance(s1, in.adv) EXCEPT !.status = CLAIMED] IN
    IF in.fail = "post"
    THEN Raise(Call(s2, "/tx/name/claim", s.preclaim_salt, Failure), "GatewayError", {})
    ELSE
    LET tx_hash == ClaimTxHash(s.preclaim_salt)
        s3 == Call(s2, "/tx/name/claim", s.preclaim_salt, {<<"tx_hash", tx_hash>>})
    IN
    IF in.fail = "sign"
    THEN Raise(Call(s3, "sign_transaction", None, Failure), "SigningError", {})
    ELSE
    LET s4 == Call(s3, "sign_transaction", None, {}) IN
    IF in.fail = "send"
    THEN Raise(Call(s4, "send_signed_transaction", None, Failure), "GatewayError", {})
    ELSE
    LET s5 == Call(s4, "send_signed_transaction", None, {<<"ok", 1>>}) IN
    Return(s5, <<tx_hash, s.preclaim_salt>>)

\* in: [fail, adv]
claim(s0, in) ==
    LET s == Enter(s0, "claim") IN
    IF NoPreclaim(s)
    THEN Raise(s, "MissingPreclaim", {})
    ELSE
    IF in.fail = "get_height"
    THEN Raise(Call(s, "get_height", None, Failure), "GatewayError", {})
    ELSE
    LET s1 == Call(s, "get_height", None, {<<"height", s.height>>}) IN
    IF TooEarly(s.preclaimed_block_height, s.height)
    THEN Raise(s1, "TooEarlyClaim", {})
    ELSE
    LET s2 == Advance(s1, in.adv) IN
    IF in.fail = "post"
    THEN Raise(Call(s2, "/tx/name/claim", s.preclaim_salt, Failure), "GatewayError", {})
    ELSE
    LET tx_hash == ClaimTxHash(s.preclaim_salt)
        s3 == Call(s2, "/tx/name/claim", s.preclaim_salt, {<<"tx_hash", tx_hash>>})
    IN
    IF in.fail = "sign"
    THEN Raise(Call(s3, "sign_transaction", None, Failure), "SigningError", {})
    ELSE
    LET s4 == Call(s3, "sign_transaction", None, {}) IN
    IF in.fail = "send"
    THEN Raise(Call(s4, "send_signed_transaction", None, Failure), "GatewayError", {})
    ELSE
    LET s5 == Call(s4, "send_signed_transaction", None, {<<"ok", 1>>}) IN
    Return([s5 EXCEPT !.status = CLAIMED], <<tx_hash, s.preclaim_salt>>)

\* The inputs of one claim call: which collaborator call fails, and whether
\* a block arrives while a call that succeeds runs.
ClaimInputs ==
    {in \in [fail : {"none", "get_height", "post", "sign", "send"}, adv : {0, 1}] :
        in.fail # "none" => in.adv = 0}

\* ---------------------------------------- AEName._get_commitment_hash
\* (variant: a missing 'commitment' read as None instead of raising)
get_commitment_hash_lenient(s0, salt, in) ==
    LET s == Enter(s0, "_get_commitment_hash") IN
    IF in.fail = "commitment"
    THEN Raise(Call(s, "commitment-hash", salt, Failure), "GatewayError", {})
    ELSE
    LET s1 == Call(s, "commitment-hash", salt, in.response) IN
    IF HasKey(in.response, "commitment")
    THEN Return(s1, <<Get(in.response, "commitment")>>)
    ELSE Return(s1, <<None>>)

\* in: [fail, response]
get_commitment_hash(s0, salt, in) ==
    LET s == Enter(s0, "_get_commitment_hash") IN
    IF in.fail = "commitment"
    THEN Raise(Call(s, "commitment-hash", salt, Failure), "GatewayError", {})
    ELSE
    LET s1 == Call(s, "commitment-hash", salt, in.response) IN
    IF HasKey(in.response, "commitment")
    THEN Return(s1, <<Get(in.response, "commitment")>>)
    ELSE Raise(s1, "PreclaimFailed", in.response)

\* ----------------------------------------------------- AEName.preclaim
\* (variant: the salt tested for truth, `if salt`)
SaltTruthy(salt) == salt > 0

\* `salt is not None`
SaltGiven(salt) == salt # None

\* in: [fail, adv, response, rnd]
preclaim(s0, salt, in) ==
    LET s == [Enter(s0, "preclaim") EXCEPT !.preclaim_called = TRUE] IN
    IF in.fail = "get_height"
    THEN Raise(Call(s, "get_height", None, Failure), "GatewayError", {})
    ELSE
    LET s1 == [Call(s, "get_height", None, {<<"height", s.height>>})
                 EXCEPT !.preclaimed_block_height = s.height,
                        !.preclaim_salt = IF SaltGiven(salt) THEN salt ELSE in.rnd]
        s2 == get_commitment_hash(Advance(s1, in.adv), s1.preclaim_salt, in)
    IN
    IF Raised(s2) THEN s2
    ELSE
    LET commitment_hash == s2.result.ret[1] IN
    IF in.fail = "post"
    THEN Raise(Call(s2, "/tx/name/preclaim", commitment_hash, Failure), "GatewayError", {})
    ELSE
    LET tx_hash == PreclaimTxHash(commitment_hash)
        s3 == Call(s2, "/tx/name/preclaim", commitment_hash, {<<"tx_hash", tx_hash>>})
    IN
    IF in.fail = "sign"
    THEN Raise(Call(s3, "sign_transaction", None, Failure), "SigningError", {})
    ELSE
    LET s4 == Call(s3, "sign_transaction", None, {}) IN
    IF in.fail = "send"
    THEN Raise(Call(s4, "send_signed_transaction", None, Failure), "GatewayError", {})
    ELSE
    LET s5 == Call(s4, "send_signed_transaction", None, {<<"ok", 1>>}) IN
    Return([s5 EXCEPT !.status = PRECLAIMED,
                      !.last_preclaim_tx = [salt |-> s1.preclaim_salt,
                                            commitment |-> commitment_hash,
                                            h |-> s5.height]],
           <<tx_hash, s1.preclaim_salt>>)

\* The inputs of one preclaim call with salt argument `salt`: which
\* collaborator call fails, whether a block arrives while a call that succeeds
\* runs, the gateway's answer to the commitment request (for the salt it is
\* sent, or without 'commitment'), and what random.randint draws (drawn only
\* when no salt is given).
PreclaimInputs ==
    [salt \in Salts \cup {None} |->
        {in \in [fail : {"none", "get_height", "commitment", "post", "sign", "send"},
                 adv : {0, 1},
                 response : {CommitmentResponse(x) : x \in Salts} \cup {RejectResponse},
                 rnd : Salts \cup {None}] :
            /\ (in.rnd = None) = (salt # None)
            /\ in.fail # "none" => in.adv = 0
            /\ in.response \in {CommitmentResponse(IF salt # None THEN salt ELSE in.rnd),
                                RejectResponse}
            /\ in.response = RejectResponse => in.fail = "none" /\ in.adv = 0}]

\* ------------------------------------------------ AEName.update_status
\* json.loads on the texts the gateway sends as 'pointers'
JsonLoads(text) ==
    CASE text = "[]" -> {}
      [] text = "{\"account_pubkey\": \"ak$A\"}" -> {<<"account_pubkey", AkA>>}

\* The answer to 'name' as the trace keeps it: the keys it has, or how it fails.
LookupResponse(in) ==
    CASE in.lookup = "error" -> Failure
      [] in.lookup = "not_found" -> NotFound
      [] in.lookup = "found" -> {<<"name_ttl", in.ttl>>, <<"pointers", 1>>}

\* (variant: the branch without its test of the status)
OnNotAvailableReset(st) == AVAILABLE

\* the except NameNotAvailable branch
OnNotAvailable(st) == IF st = UNKNOWN THEN AVAILABLE ELSE st

\* in: [lookup, ttl, ptext]; lookup is the gateway's answer to 'name':
\* "found", "not_found" (NameNotAvailable) or "error" (any other failure)
update_status(s0, in) ==
    LET s == Enter(s0, "update_status")
        s1 == Call(s, "name", None, LookupResponse(in))
    IN
    CASE in.lookup = "error" -> Raise(s1, "GatewayError", {})
      [] in.lookup = "not_found" ->
            Return([s1 EXCEPT !.status = OnNotAvailable(s.status)], <<>>)
      [] in.lookup = "found" ->
            Return([s1 EXCEPT !.status = CLAIMED,
                              !.name_ttl = in.ttl,
                              !.pointers = JsonLoads(in.ptext)], <<>>)

\* An input the run does not get to read is fixed.
LookupInputs ==
    {in \in [lookup : {"found", "not_found", "error"}, ttl : TTLs, ptext : PointerTexts] :
        in.lookup # "found" => in.ptext = "[]"}

\* ------------------------------ AEName.is_available, AEName.check_claimed
Bool(b) == IF b THEN 1 ELSE 0

is_available(s0, in) ==
    LET s == update_status(Enter(s0, "is_available"), in) IN
    IF Raised(s) THEN s ELSE Return(s, <<Bool(s.status = AVAILABLE)>>)

check_claimed(s0, in) ==
    LET s == update_status(Enter(s0, "check_claimed"), in) IN
    IF Raised(s) THEN s ELSE Return(s, <<Bool(s.status = CLAIMED)>>)

\* ------------------------------------------------ AEName.claim_blocking
\* (variant: `except Exception`, any failure of the first attempt waited out)
claim_blocking_any(s0, in) ==
    LET s == claim(Enter(s0, "claim_blocking"), in) IN
    IF Raised(s)
    THEN [Call(s, "wait_for_next_block", None, {})
            EXCEPT !.pc = "waiting", !.wait_from = s.height, !.result = NoResult]
    ELSE Return(s, <<>>)

\* (variant: no handler, the first attempt is the only one)
claim_blocking_once(s0, in) ==
    LET s == claim(Enter(s0, "claim_blocking"), in) IN
    IF Raised(s) THEN s ELSE Return(s, <<>>)

\* The call up to its suspension in wait_for_next_block, or to its end.
claim_blocking(s0, in) ==
    LET s == claim(Enter(s0, "claim_blocking"), in) IN
    IF s.result.exc = "TooEarlyClaim"
    THEN [Call(s, "wait_for_next_block", None, {})
            EXCEPT !.pc = "waiting", !.wait_from = s.height, !.result = NoResult]
    ELSE IF Raised(s) THEN s ELSE Return(s, <<>>)

\* EpochClient.wait_for_next_block returns once the height has passed the
\* height at which it was called.
wait_for_next_block_done(s) == s.height > s.wait_from

\* The rest of the call, from the return of wait_for_next_block.
\* in: [fail, adv], fail = "wait" when the wait itself fails
claim_blocking_resume(s0, in) ==
    LET s == [s0 EXCEPT !.pc = "idle", !.wait_from = None] IN
    IF in.fail = "wait" THEN Raise(s, "GatewayError", {})
    ELSE LET c == claim(s, in) IN
         IF Raised(c) THEN c ELSE Return(c, <<>>)

ResumeInputs ==
    ClaimInputs \cup {[fail |-> "wait", adv |-> 0]}

\* ------------------------------------------- AEName.full_claim_blocking
\* (variant: the availability looked up but not tested)
full_claim_blocking_unchecked(s0, in) ==
    LET s == is_available(Enter(s0, "full_claim_blocking"), in.lookup) IN
    IF Raised(s) THEN s
    ELSE LET p == preclaim(s, None, in.pre) IN
         IF Raised(p) THEN p ELSE claim_blocking(p, in.cl)

\* in: [lookup, pre, cl], the inputs of the three calls it makes
full_claim_blocking(s0, in) ==
    LET s == is_available(Enter(s0, "full_claim_blocking"), in.lookup) IN
    IF Raised(s) THEN s
    ELSE IF s.result.ret # <<1>> THEN Raise(s, "NameNotAvailable", {})
    ELSE LET p == preclaim(s, None, in.pre) IN
         IF Raised(p) THEN p ELSE claim_blocking(p, in.cl)

NoPre == [fail |-> "get_height", adv |-> 0, response |-> CommitmentResponse(0), rnd |-> 0]
NoCl == [fail |-> "get_height", adv |-> 0]

\* The inputs of one full_claim_blocking call on a name of status st; an
\* input the run does not get to read is fixed.
FullClaimInputs ==
    [st \in NameStatus |->
        {in \in [lookup : LookupInputs, pre : PreclaimInputs[None], cl : ClaimInputs] :
            /\ ~(in.lookup.lookup = "not_found" /\ st \in {UNKNOWN, AVAILABLE})
                    => in.pre = NoPre
            /\ ~(in.pre.fail = "none" /\ in.pre.response # RejectResponse)
                    => in.cl = NoCl}]

\* -------------------------------------------------------- AEName.update
\* target.startswith('ak')
IsAccount(target) == StartsWith(target, <<"a", "k">>)

\* (variant: the assert compiled away)
AssertStripped(s) == TRUE

\* assert self.status == NameStatus.CLAIMED
MustBeClaimed(s) == s.status = CLAIMED

\* (variant: the new mapping merged into the old one)
MergePointers(old, new) == old \cup new

\* self.pointers = pointers
SetPointers(old, new) == new

\* in: [target, fail, response]; target is a str or an Oracle
update(s0, in) ==
    LET s == Enter(s0, "update") IN
    IF ~MustBeClaimed(s) THEN Raise(s, "AssertionError", {})
    ELSE IF in.target.kind = "oracle" /\ in.target.id = NoId THEN Raise(s, "ValueError", {})
    ELSE
    LET target == in.target.id
        new_pointers == IF IsAccount(target)
                        THEN {<<"account_pubkey", target>>}
                        ELSE {<<"oracle_pubkey", target>>}
    IN
    IF in.fail = "post"
    THEN Raise(Call(s, "name-update-tx", s.name_ttl, Failure), "GatewayError", {})
    ELSE
    LET s1 == Call(s, "name-update-tx", s.name_ttl, in.response) IN
    IF HasKey(in.response, "name_hash")
    THEN Return([s1 EXCEPT !.pointers = SetPointers(s.pointers, new_pointers)], <<>>)
    ELSE Raise(s1, "UpdateError", in.response)

Targets ==
    {[kind |-> "str", id |-> AkA], [kind |-> "oracle", id |-> NoId],
     [kind |-> "oracle", id |-> OkB]}

PostInputs ==
    {in \in [fail : {"none", "post"}, response : {EchoResponse, RejectResponse}] :
        in.fail = "post" => in.response = EchoResponse}

UpdateInputs ==
    {[target |-> t, fail |-> in.fail, response |-> in.response] :
        t \in Targets, in \in PostInputs}

\* --------------------------------------------- AEName.transfer_ownership
\* (variant: the status set whatever the response holds)
transfer_ownership_unchecked(s0, in) ==
    LET s == Enter(s0, "transfer_ownership") IN
    IF in.fail = "post"
    THEN Raise(Call(s, "name-transfer-tx", None, Failure), "GatewayError", {})
    ELSE
    LET s1 == Call(s, "name-transfer-tx", None, in.response) IN
    IF ~HasKey(in.response, "name_hash")
    THEN Raise([s1 EXCEPT !.status = TRANSFERRED], "AENSException", in.response)
    ELSE Return([s1 EXCEPT !.status = TRANSFERRED], <<>>)

transfer_ownership(s0, in) ==
    LET s == Enter(s0, "transfer_ownership") IN
    IF in.fail = "post"
    THEN Raise(Call(s, "name-transfer-tx", None, Failure), "GatewayError", {})
    ELSE
    LET s1 == Call(s, "name-transfer-tx", None, in.response) IN
    IF ~HasKey(in.response, "name_hash")
    THEN Raise(s1, "AENSException", in.response)
    ELSE Return([s1 EXCEPT !.status = TRANSFERRED], <<>>)

\* --------------------------------------------------------- AEName.revoke
revoke(s0, in) ==
    LET s == Enter(s0, "revoke") IN
    IF in.fail = "post"
    THEN Raise(Call(s, "name-revoke-tx", None, Failure), "GatewayError", {})
    ELSE
    LET s1 == Call(s, "name-revoke-tx", None, in.response) IN
    IF HasKey(in.response, "name_hash")
    THEN Return([s1 EXCEPT !.status = REVOKED], <<>>)
    ELSE Raise(s1, "AENSException", in.response)

\* ------- AEName.validate_address, validate_name, validate_pointer
\* str.endswith(suffix)
EndsWith(str, suffix) ==
    /\ Len(str) >= Len(suffix)
    /\ SubSeq(str, Len(str) - Len(suffix) + 1, Len(str)) = suffix

\* ('ak$', 'ok$') and ('.aet', '.test')
AddressPrefixes == {<<"a", "k", "$">>, <<"o", "k", "$">>}
NameSuffixes == {<<".", "a", "e", "t">>, <<".", "t", "e", "s", "t">>}

\* address.startswith(('ak$', 'ok$')) and domain.endswith(('.aet', '.test'))
HasAddressPrefix(address) == \E p \in AddressPrefixes : StartsWith(address, p)
HasNameSuffix(domain) == \E x \in NameSuffixes : EndsWith(domain, x)

validate_address(s0, address, raise_exception) ==
    LET s == Enter(s0, "validate_address") IN
    IF ~HasAddressPrefix(address)
    THEN IF raise_exception THEN Raise(s, "ValueError", {}) ELSE Return(s, <<Bool(FALSE)>>)
    ELSE Return(s, <<Bool(TRUE)>>)

validate_name(s0, domain, raise_exception) ==
    LET s == Enter(s0, "validate_name") IN
    IF ~HasNameSuffix(domain)
    THEN IF raise_exception THEN Raise(s, "ValueError", {}) ELSE Return(s, <<Bool(FALSE)>>)
    ELSE Return(s, <<Bool(TRUE)>>)

\* `not validate_address(..) or not validate_name(..)`: the right operand is
\* evaluated only when the left one is false
validate_pointer(s0, pointer) ==
    LET s == Enter(s0, "validate_pointer")
        a == validate_address(s, pointer, FALSE)
    IN
    IF a.result.ret # <<1>> THEN Return(a, <<Bool(TRUE)>>)
    ELSE LET n == validate_name(a, pointer, FALSE) IN
         Return(n, <<Bool(n.result.ret # <<1>>)>>)

\* The texts the validators are given: a head, a body and a tail.
TextHeads == AddressPrefixes \cup {<<>>, <<"a", "k">>, <<"n", "m", "$">>}
TextBodies == {<<>>, <<"A">>}
TextTails == NameSuffixes \cup {<<>>, <<".", "a", "e">>}
Texts == {h \o b \o t : h \in TextHeads, b \in TextBodies, t \in TextTails}

\* ------------------------------------------------------------ actions
Init ==
    /\ status = UNKNOWN
    /\ preclaimed_block_height = None
    /\ preclaimed_commitment_hash = None
    /\ preclaim_salt = None
    /\ name_ttl = 0
    /\ pointers = {}
    /\ height \in Heights
    /\ pc = "idle"
    /\ wait_from = None
    /\ op = "none"
    /\ arg = NoArg
    /\ trace = <<>>
    /\ result = NoResult
    /\ preclaim_called = FALSE
    /\ last_preclaim_tx = NoTx

Preclaim ==
    /\ pc = "idle"
    /\ \E salt \in Salts \cup {None} : \E in \in PreclaimInputs[salt] :
        /\ height + in.adv <= MaxHeight
        /\ Becomes(End(preclaim(
               Begin(Cur, "preclaim", [NoArg EXCEPT !.salt = salt, !.rnd = in.rnd]),
               salt, in)))

Claim ==
    /\ pc = "idle"
    /\ \E in \in ClaimInputs :
        /\ height + in.adv <= MaxHeight
        /\ Becomes(End(claim(Begin(Cur, "claim", NoArg), in)))

UpdateStatus ==
    /\ pc = "idle"
    /\ \E in \in LookupInputs :
        Becomes(End(update_status(Begin(Cur, "update_status", NoArg), in)))

IsAvailable ==
    /\ pc = "idle"
    /\ \E in \in LookupInputs :
        Becomes(End(is_available(Begin(Cur, "is_available", NoArg), in)))

CheckClaimed ==
    /\ pc = "idle"
    /\ \E in \in LookupInputs :
        Becomes(End(check_claimed(Begin(Cur, "check_claimed", NoArg), in)))

ClaimBlocking ==
    /\ pc = "idle"
    /\ \E in \in ClaimInputs :
        /\ height + in.adv <= MaxHeight
        /\ Becomes(End(claim_blocking(Begin(Cur, "claim_blocking", NoArg), in)))

\* wait_for_next_block returns (or fails) and the suspended call goes on.
WaitForNextBlockReturn ==
    /\ pc = "waiting"
    /\ \E in \in ResumeInputs :
        /\ height + in.adv <= MaxHeight
        /\ in.fail # "wait" => wait_for_next_block_done(Cur)
        /\ Becomes(End(claim_blocking_resume(Cur, in)))

FullClaimBlocking ==
    /\ pc = "idle"
    /\ \E in \in FullClaimInputs[status] :
        /\ height + in.pre.adv + in.cl.adv <= MaxHeight
        /\ Becomes(End(full_claim_blocking(
               Begin(Cur, "full_claim_blocking", [NoArg EXCEPT !.rnd = in.pre.rnd]), in)))

Update ==
    /\ pc = "idle"
    /\ \E in \in UpdateInputs :
        Becomes(End(update(Begin(Cur, "update", [NoArg EXCEPT !.target = in.target]), in)))

TransferOwnership ==
    /\ pc = "idle"
    /\ \E in \in PostInputs :
        Becomes(End(transfer_ownership(Begin(Cur, "transfer_ownership", NoArg), in)))

Revoke ==
    /\ pc = "idle"
    /\ \E in \in PostInputs :
        Becomes(End(revoke(Begin(Cur, "revoke", NoArg), in)))

\* The caller has taken the outcome of the call and is free to make the next.
Returned ==
    /\ pc = "returned"
    /\ pc' = "idle"
    /\ op' = "none"
    /\ arg' = NoArg
    /\ trace' = <<>>
    /\ result' = NoResult
    /\ UNCHANGED <<status, preclaimed_block_height, preclaimed_commitment_hash,
                   preclaim_salt, name_ttl, pointers, height, wait_from,
                   preclaim_called, last_preclaim_tx>>

\* A new block: the gateway reports a greater height.
ChainAdvance ==
    /\ pc # "returned"
    /\ height < MaxHeight
    /\ height' = height + 1
    /\ UNCHANGED <<status, preclaimed_block_height, preclaimed_commitment_hash,
                   preclaim_salt, name_ttl, pointers, pc, wait_from, op, arg, trace,
                   result, preclaim_called, last_preclaim_tx>>

\* A fork is abandoned: the gateway reports a smaller height.
ChainRollback ==
    /\ pc # "returned"
    /\ height > 0
    /\ height' = height - 1
    /\ UNCHANGED <<status, preclaimed_block_height, preclaimed_commitment_hash,
                   preclaim_salt, name_ttl, pointers, pc, wait_from, op, arg, trace,
                   result, preclaim_called, last_preclaim_tx>>

Next ==
    \/ UpdateStatus
    \/ IsAvailable
    \/ CheckClaimed
    \/ FullClaimBlocking
    \/ Preclaim
    \/ ClaimBlocking
    \/ WaitForNextBlockReturn
    \/ Claim
    \/ Update
    \/ TransferOwnership
    \/ Revoke
    \/ Returned
    \/ ChainAdvance
    \/ ChainRollback

Spec == Init /\ [][Next]_vars

\* claim_blocking on a chain that only grows, with a gateway and a signer
\* that answer every call.
SuccessInputs == {in \in ClaimInputs : in.fail = "none"}

ClaimBlockingAnswered ==
    /\ pc = "idle"
    /\ \E in \in SuccessInputs :
        /\ height + in.adv <= MaxHeight
        /\ Becomes(End(claim_blocking(Begin(Cur, "claim_blocking", NoArg), in)))

WaitForNextBlockReturnAnswered ==
    /\ pc = "waiting"
    /\ \E in \in SuccessInputs :
        /\ height + in.adv <= MaxHeight
        /\ wait_for_next_block_done(Cur)
        /\ Becomes(End(claim_blocking_resume(Cur, in)))

NextLive ==
    \/ Preclaim
    \/ ClaimBlockingAnswered
    \/ WaitForNextBlockReturnAnswered
    \/ Returned
    \/ ChainAdvance

\* New blocks keep arriving, and wait_for_next_block, which polls the height,
\* returns once it can.
SpecLive ==
    /\ Init
    /\ [][NextLive]_vars
    /\ WF_vars(ChainAdvance)
    /\ WF_vars(WaitForNextBlockReturnAnswered)

\* The validators are class methods: they read no field of the object.
ValidatePointer ==
    /\ pc = "idle"
    /\ \E text \in Texts :
        Becomes(End(validate_pointer(
            Begin(Cur, "validate_pointer", [NoArg EXCEPT !.target = [kind |-> "str", id |-> text]]),
            text)))

ValidateAddress ==
    /\ pc = "idle"
    /\ \E text \in Texts, raise_exception \in BOOLEAN :
        Becomes(End(validate_address(
            Begin(Cur, "validate_address", [NoArg EXCEPT !.target = [kind |-> "str", id |-> text]]),
            text, raise_exception)))

ValidateName ==
    /\ pc = "idle"
    /\ \E text \in Texts, raise_exception \in BOOLEAN :
        Becomes(End(validate_name(
            Begin(Cur, "validate_name", [NoArg EXCEPT !.target = [kind |-> "str", id |-> text]]),
            text, raise_exception)))

NextValidate ==
    \/ ValidatePointer
    \/ ValidateAddress
    \/ ValidateName
    \/ Returned

SpecValidate == Init /\ [][NextValidate]_vars

\* ============================================================ properties
\* What a trace holds.
Calls(t) == {t[i].call : i \in DOMAIN t}
Index(t, c) == CHOOSE i \in DOMAIN t : t[i].call = c
Has(t, c) == c \in Calls(t)
Answer(t, c) == t[Index(t, c)].r
Value(t, c) == t[Index(t, c)].v
NoFailure(t) == \A i \in DOMAIN t : t[i].r # Failure
Sent(t) == \E i \in DOMAIN t : t[i].call = "send_signed_transaction" /\ t[i].r # Failure
Positions(t, c) == {i \in DOMAIN t : t[i].call = c}

\* The step is the caller invoking method m.
Invokes(m) == pc = "idle" /\ op' = m

\* The step leaves every field of the AEName object as it was.
ObjectUnchanged ==
    /\ status' = status
    /\ preclaimed_block_height' = preclaimed_block_height
    /\ preclaimed_commitment_hash' = preclaimed_commitment_hash
    /\ preclaim_salt' = preclaim_salt
    /\ name_ttl' = name_ttl
    /\ pointers' = pointers

\* C1: with preclaimed_block_height = H set, claim reads the chain height; if
\* the height read is not greater than H it raises TooEarlyClaim, builds and
\* sends no claim transaction and leaves status as it was; if it is greater
\* and no gateway or signer call fails, it sends the claim transaction with
\* the preclaim salt, sets status CLAIMED and returns (tx_hash, preclaim salt).
C1_ClaimGate ==
    [][(Invokes("claim") /\ preclaimed_block_height # None) =>
        LET t == trace'
            H == preclaimed_block_height
        IN
        /\ Has(t, "get_height")
        /\ Answer(t, "get_height") # Failure =>
            IF Get(Answer(t, "get_height"), "height") <= H
            THEN /\ result'.exc = "TooEarlyClaim"
                 /\ ~Has(t, "/tx/name/claim")
                 /\ ~Has(t, "send_signed_transaction")
                 /\ status' = status
            ELSE NoFailure(t) =>
                 /\ result'.exc = "none"
                 /\ Has(t, "/tx/name/claim")
                 /\ Value(t, "/tx/name/claim") = preclaim_salt
                 /\ Sent(t)
                 /\ status' = CLAIMED
                 /\ result'.ret = <<Get(Answer(t, "/tx/name/claim"), "tx_hash"),
                                    preclaim_salt>>
    ]_vars

\* claim has raised TooEarlyClaim at the very height preclaim recorded
C1_Witness ==
    /\ op = "claim" /\ pc = "returned"
    /\ result.exc = "TooEarlyClaim"
    /\ Get(Answer(trace, "get_height"), "height") = preclaimed_block_height

\* C2: on an instance on which preclaim was never called, claim raises
\* MissingPreclaim whatever the status, makes no collaborator call (no height
\* read, no transaction) and changes no field.
C2_ClaimWithoutPreclaim ==
    [][(Invokes("claim") /\ ~preclaim_called) =>
        /\ result'.exc = "MissingPreclaim"
        /\ Calls(trace') = {"claim", "MissingPreclaim"}
        /\ ObjectUnchanged
    ]_vars

\* claim has raised MissingPreclaim on a name that a lookup found CLAIMED
C2_Witness ==
    /\ op = "claim" /\ pc = "returned"
    /\ ~preclaim_called
    /\ result.exc = "MissingPreclaim"
    /\ status = CLAIMED

\* C3 (as claimed): as long as no preclaim has succeeded, the preclaim fields
\* are unset and a claim raises MissingPreclaim.
C3_UnsetUntilPreclaimSucceeds ==
    last_preclaim_tx = NoTx =>
        /\ preclaimed_block_height = None
        /\ preclaim_salt = None
        /\ (op = "claim" /\ pc = "returned") => result.exc = "MissingPreclaim"

\* C4: when the lookup answers not-found, update_status raises nothing, sets
\* status AVAILABLE if it was UNKNOWN and otherwise leaves status as it was,
\* and leaves name_ttl, pointers and the preclaim fields as they were.
C4_NotFoundKeepsStatus ==
    [][(Invokes("update_status") /\ Answer(trace', "name") = NotFound) =>
        /\ result'.exc = "none"
        /\ status' = (IF status = UNKNOWN THEN AVAILABLE ELSE status)
        /\ name_ttl' = name_ttl
        /\ pointers' = pointers
        /\ preclaimed_block_height' = preclaimed_block_height
        /\ preclaimed_commitment_hash' = preclaimed_commitment_hash
        /\ preclaim_salt' = preclaim_salt
    ]_vars

\* update_status has met not-found on a PRECLAIMED name
C4_Witness ==
    /\ op = "update_status" /\ pc = "returned"
    /\ Answer(trace, "name") = NotFound
    /\ status = PRECLAIMED

\* UNKNOWN < AVAILABLE < PRECLAIMED < CLAIMED < {TRANSFERRED, REVOKED}
Rank(st) ==
    CASE st = UNKNOWN -> 0
      [] st = AVAILABLE -> 1
      [] st = PRECLAIMED -> 2
      [] st = CLAIMED -> 3
      [] st \in {TRANSFERRED, REVOKED} -> 4

\* C5 (as claimed): no step moves status backward in the order of Rank.
C5_StatusNeverBackward == [][Rank(status') >= Rank(status)]_vars

\* C6 (as claimed): once status is TRANSFERRED or REVOKED no step changes it.
C6_TerminalStatus == [][(status \in {TRANSFERRED, REVOKED}) => status' = status]_vars

\* C7: a preclaim none of whose collaborator calls fails, and whose commitment
\* answer has 'commitment', returns normally with status PRECLAIMED,
\* preclaimed_block_height the height it read first, preclaim_salt the salt
\* argument when one is given (0 included) and the drawn number otherwise; the
\* commitment is requested for that salt and the value returned is
\* (tx_hash, that salt).
C7_PreclaimSuccess ==
    (/\ op = "preclaim" /\ pc = "returned"
     /\ NoFailure(trace)
     /\ Has(trace, "commitment-hash")
     /\ HasKey(Answer(trace, "commitment-hash"), "commitment"))
    =>
    /\ result.exc = "none"
    /\ status = PRECLAIMED
    /\ trace[2].call = "get_height"
    /\ preclaimed_block_height = Get(trace[2].r, "height")
    /\ preclaim_salt = (IF arg.salt # None THEN arg.salt ELSE arg.rnd)
    /\ preclaim_salt \in Salts
    /\ Value(trace, "commitment-hash") = preclaim_salt
    /\ Has(trace, "/tx/name/preclaim")
    /\ Sent(trace)
    /\ result.ret = <<Get(Answer(trace, "/tx/name/preclaim"), "tx_hash"), preclaim_salt>>

\* preclaim has succeeded with the salt 0 given by the caller
C7_Witness ==
    /\ op = "preclaim" /\ pc = "returned"
    /\ result.exc = "none"
    /\ arg.salt = 0
    /\ status = PRECLAIMED

\* C8: when the commitment answer lacks 'commitment', preclaim raises
\* PreclaimFailed carrying that answer, builds and sends no preclaim
\* transaction and leaves status as it was.
C8_CommitmentMissing ==
    [][(/\ Invokes("preclaim")
        /\ Has(trace', "commitment-hash")
        /\ Answer(trace', "commitment-hash") # Failure
        /\ ~HasKey(Answer(trace', "commitment-hash"), "commitment"))
       =>
        /\ result'.exc = "PreclaimFailed"
        /\ result'.payload = Answer(trace', "commitment-hash")
        /\ ~Has(trace', "/tx/name/preclaim")
        /\ ~Has(trace', "sign_transaction")
        /\ ~Has(trace', "send_signed_transaction")
        /\ status' = status
    ]_vars

\* preclaim has raised PreclaimFailed on a CLAIMED name
C8_Witness ==
    /\ op = "preclaim" /\ pc = "returned"
    /\ result.exc = "PreclaimFailed"
    /\ result.payload = RejectResponse
    /\ status = CLAIMED

\* The part of a trace that claim_blocking made.
CbSeg(t) == SubSeq(t, Index(t, "claim_blocking"), Len(t))
Errors == {"MissingPreclaim", "GatewayError", "SigningError"}

\* C9: claim_blocking makes one claim attempt; it waits for the next block only
\* right after that attempt raised TooEarlyClaim, once, and then makes exactly
\* one more attempt; any other error of an attempt ends the call with that
\* error and without a wait; a TooEarlyClaim of the second attempt ends the
\* call with TooEarlyClaim.
C9_ClaimBlockingRetry ==
    (op \in {"claim_blocking", "full_claim_blocking"} /\ Has(trace, "claim_blocking")) =>
        LET t == CbSeg(trace)
            attempts == Positions(t, "claim")
            waits == Positions(t, "wait_for_next_block")
            early == Positions(t, "TooEarlyClaim")
        IN
        /\ t[2].call = "claim"
        /\ Cardinality(attempts) \in {1, 2}
        /\ Cardinality(waits) <= 1
        /\ \A w \in waits :
            /\ t[w - 1].call = "TooEarlyClaim"
            /\ Cardinality({i \in attempts : i < w}) = 1
            /\ pc = "returned" => t[w + 1].call \in {"claim", "GatewayError"}
        /\ \A i \in attempts : i > 2 => i - 1 \in waits
        /\ early # {} => waits # {}
        /\ pc = "waiting" => Cardinality(attempts) = 1 /\ t[Len(t)].call = "wait_for_next_block"
        /\ \A i \in DOMAIN t : t[i].call \in Errors =>
            /\ i = Len(t)
            /\ pc = "returned"
            /\ result.exc = t[i].call
        /\ Cardinality(early) = 2 => pc = "returned" /\ result.exc = "TooEarlyClaim"
        /\ Cardinality(early) <= 2

\* claim_blocking has waited once and its second attempt has claimed the name
C9_Witness ==
    /\ op = "claim_blocking" /\ pc = "returned"
    /\ Cardinality(Positions(trace, "claim")) = 2
    /\ Cardinality(Positions(trace, "wait_for_next_block")) = 1
    /\ result.exc = "none"
    /\ status = CLAIMED

\* C10: full_claim_blocking first looks the name up; when the lookup returns
\* and leaves a status other than AVAILABLE it raises NameNotAvailable and
\* calls nothing else (no height read, no commitment request, no
\* transaction); when the status is AVAILABLE it enters preclaim and, only
\* after preclaim, claim_blocking; a claim transaction is built only after a
\* preclaim transaction has been sent.
C10_FullClaimOrder ==
    [][op' = "full_claim_blocking" =>
        LET t == trace'
            refreshed == Len(t) >= 5 /\ t[5].call # "GatewayError"
        IN
        /\ Len(t) >= 5
        /\ t[1].call = "full_claim_blocking"
        /\ t[2].call = "is_available"
        /\ t[3].call = "update_status"
        /\ t[4].call = "name"
        /\ ~refreshed => Len(t) = 5 /\ result'.exc = t[5].call
        /\ (refreshed /\ ~Has(t, "preclaim")) =>
            /\ status' # AVAILABLE
            /\ result'.exc = "NameNotAvailable"
            /\ Len(t) = 5
            /\ t[5].call = "NameNotAvailable"
        /\ (Invokes("full_claim_blocking") /\ refreshed) =>
            (Has(t, "preclaim") <=> (t[4].r = NotFound /\ status \in {UNKNOWN, AVAILABLE}))
        /\ Has(t, "preclaim") => t[5].call = "preclaim"
        /\ Has(t, "claim_blocking") =>
            /\ Has(t, "/tx/name/preclaim")
            /\ Index(t, "send_signed_transaction") < Index(t, "claim_blocking")
            /\ t[Index(t, "send_signed_transaction")].r # Failure
        /\ \A j \in Positions(t, "/tx/name/claim") :
            \E i \in Positions(t, "send_signed_transaction") :
                /\ i < j
                /\ t[i].r # Failure
                /\ \E k \in Positions(t, "/tx/name/preclaim") : k < i
    ]_vars

\* full_claim_blocking has raised NameNotAvailable on a name found CLAIMED
C10_Witness ==
    /\ op = "full_claim_blocking" /\ pc = "returned"
    /\ result.exc = "NameNotAvailable"
    /\ status = CLAIMED

\* C11: update on a name whose status is not CLAIMED raises AssertionError,
\* and update on a CLAIMED name with an Oracle target whose oracle_id is None
\* raises ValueError; in both cases no gateway call is made and status,
\* pointers, name_ttl and the preclaim fields are left as they were.
C11_UpdateRejectedEarly ==
    [][(Invokes("update") /\ (status # CLAIMED \/ arg'.target = [kind |-> "oracle", id |-> NoId]))
       =>
        /\ result'.exc = (IF status # CLAIMED THEN "AssertionError" ELSE "ValueError")
        /\ Calls(trace') = {"update", result'.exc}
        /\ ~Has(trace', "name-update-tx")
        /\ ObjectUnchanged
    ]_vars

\* update has been rejected on a PRECLAIMED name that holds pointers
C11_Witness ==
    /\ op = "update" /\ pc = "returned"
    /\ result.exc = "AssertionError"
    /\ status = PRECLAIMED
    /\ pointers # {}

\* C12: an update on a CLAIMED name whose response echoes name_hash returns
\* normally and leaves pointers a mapping of exactly one entry, the target
\* under account_pubkey when it starts with the account prefix and under
\* oracle_pubkey otherwise (for an Oracle, its oracle_id); what pointers held
\* before is gone, and status stays CLAIMED with name_ttl as it was.
C12_UpdateOverwrites ==
    [][(/\ Invokes("update")
        /\ Has(trace', "name-update-tx")
        /\ HasKey(Answer(trace', "name-update-tx"), "name_hash"))
       =>
        LET target == arg'.target.id IN
        /\ status = CLAIMED
        /\ result'.exc = "none"
        /\ Cardinality(pointers') = 1
        /\ pointers' = {<<(IF target = AkA THEN "account_pubkey" ELSE "oracle_pubkey"), target>>}
        /\ status' = CLAIMED
        /\ name_ttl' = name_ttl
    ]_vars

\* update has left the id of a registered oracle as the only pointer
C12_Witness ==
    /\ op = "update" /\ pc = "returned"
    /\ result.exc = "none"
    /\ pointers = {<<"oracle_pubkey", OkB>>}
    /\ status = CLAIMED

\* C13: when the response to update, transfer_ownership or revoke lacks
\* name_hash, the call raises UpdateError (update) or AENSException (transfer,
\* revoke) carrying the response and leaves every field as it was.
C13_NoEchoNoChange ==
    [][\A m \in {"update", "transfer_ownership", "revoke"} :
        LET post == CASE m = "update" -> "name-update-tx"
                      [] m = "transfer_ownership" -> "name-transfer-tx"
                      [] m = "revoke" -> "name-revoke-tx"
        IN
        (/\ Invokes(m)
         /\ Has(trace', post)
         /\ Answer(trace', post) # Failure
         /\ ~HasKey(Answer(trace', post), "name_hash"))
        =>
        /\ result'.exc = (IF m = "update" THEN "UpdateError" ELSE "AENSException")
        /\ result'.payload = Answer(trace', post)
        /\ ObjectUnchanged
    ]_vars

\* revoke has failed on a CLAIMED name that holds pointers
C13_Witness ==
    /\ op = "revoke" /\ pc = "returned"
    /\ result.exc = "AENSException"
    /\ result.payload = RejectResponse
    /\ status = CLAIMED
    /\ pointers # {}

\* C14 (as claimed): a step in which transfer_ownership sets TRANSFERRED or
\* revoke sets REVOKED starts from status CLAIMED, and no transfer or revoke
\* transaction is posted for a name of status UNKNOWN, AVAILABLE or PRECLAIMED.
C14_OnlyFromClaimed ==
    [][/\ (Invokes("transfer_ownership") /\ result'.exc = "none" /\ status' = TRANSFERRED)
            => status = CLAIMED
       /\ (Invokes("revoke") /\ result'.exc = "none" /\ status' = REVOKED)
            => status = CLAIMED
       /\ \A post \in {"name-transfer-tx", "name-revoke-tx"} :
            (/\ Invokes("transfer_ownership") \/ Invokes("revoke")
             /\ Has(trace', post)
             /\ Answer(trace', post) # Failure)
            => status \notin {UNKNOWN, AVAILABLE, PRECLAIMED}
    ]_vars

\* C15 (as claimed): validate_pointer raises nothing and returns true exactly
\* when the value starts with an accepted address prefix or ends with an
\* accepted name suffix.
C15_PointerIsAddressOrName ==
    (op = "validate_pointer" /\ pc = "returned") =>
        /\ result.exc = "none"
        /\ result.ret = <<Bool(HasAddressPrefix(arg.target.id) \/ HasNameSuffix(arg.target.id))>>

\* The calls preclaim and claim make to the gateway and the signer.
Collaborators ==
    {"get_height", "commitment-hash", "/tx/name/preclaim", "/tx/name/claim",
     "sign_transaction", "send_signed_transaction"}
Failed(t) == {i \in DOMAIN t : t[i].r = Failure}

\* C16: when a call that preclaim or claim makes to the gateway or the signer
\* fails, it is the last call made, the failure is what the caller gets, and
\* no call is made twice: preclaim and claim make each call at most once, and
\* claim_blocking at most twice and only with a wait in between.  The status
\* is not advanced: it stays as it was after preclaim, claim and
\* claim_blocking; after full_claim_blocking it is not PRECLAIMED when
\* preclaim failed and not CLAIMED when claim failed.
C16_FailurePropagates ==
    [][LET t == trace'
           calls == {"preclaim", "claim", "claim_blocking", "full_claim_blocking"}
       IN
       (pc \in {"idle", "waiting"} /\ op' \in calls /\ Failed(t) # {}) =>
        /\ Failed(t) = {Len(t) - 1}
        /\ pc' = "returned"
        /\ result'.exc = t[Len(t)].call
        /\ result'.exc \in {"GatewayError", "SigningError"}
        /\ \A c \in Collaborators :
             Cardinality(Positions(t, c)) <=
                (IF c # "/tx/name/preclaim" /\ Has(t, "wait_for_next_block") THEN 2 ELSE 1)
              + (IF c \in {"get_height", "sign_transaction", "send_signed_transaction"}
                    /\ op' = "full_claim_blocking" THEN 1 ELSE 0)
        /\ op' \in {"preclaim", "claim"} =>
             \A c \in Collaborators : Cardinality(Positions(t, c)) <= 1
        /\ op' # "full_claim_blocking" => status' = status
        /\ op' = "full_claim_blocking" =>
             /\ t[Len(t) - 1].call = "name" => status' = status
             /\ (Has(t, "preclaim") /\ ~Has(t, "claim_blocking")) => status' = AVAILABLE
             /\ Has(t, "claim_blocking") => status' = PRECLAIMED
    ]_vars

\* claim has failed at the submission of its transaction, the name PRECLAIMED
C16_Witness ==
    /\ op = "claim" /\ pc = "returned"
    /\ result.exc = "GatewayError"
    /\ Has(trace, "send_signed_transaction")
    /\ Answer(trace, "send_signed_transaction") = Failure
    /\ status = PRECLAIMED

\* The positions in a trace at which a claim transaction was submitted.
ClaimSends(t) ==
    {i \in DOMAIN t : /\ t[i].call = "send_signed_transaction"
                      /\ t[i].r # Failure
                      /\ i > 2
                      /\ t[i - 2].call = "/tx/name/claim"}

\* C17 (as claimed): the chain height at which a claim transaction is
\* submitted is greater than the height at which the last preclaim
\* transaction of the name was submitted.
C17_BlockBetween ==
    \A i \in ClaimSends(trace) : trace[i].h > last_preclaim_tx.h

\* C18 (as claimed): once a preclaim transaction has been submitted, the
\* name_salt of a claim transaction is the salt of the last preclaim
\* transaction that was submitted.
C18_ClaimRevealsSubmittedSalt ==
    last_preclaim_tx # NoTx =>
        \A i \in Positions(trace, "/tx/name/claim") :
            trace[i].r # Failure => trace[i].v = last_preclaim_tx.salt

\* C20 (as claimed): preclaimed_commitment_hash is unset as long as no
\* preclaim has succeeded, and holds the gateway's commitment of the last
\* successful preclaim afterwards.
C20_CommitmentHashKept ==
    /\ last_preclaim_tx = NoTx => preclaimed_commitment_hash = None
    /\ last_preclaim_tx # NoTx =>
        /\ preclaimed_commitment_hash = last_preclaim_tx.commitment
        /\ preclaimed_commitment_hash = Commitment0 + last_preclaim_tx.salt

\* C19: on a chain that only grows and with every gateway and signer call
\* answered, a claim_blocking made after a successful preclaim never ends in
\* TooEarlyClaim: when it returns, it returns normally and the status is
\* CLAIMED; and a claim_blocking that waits for the next block (below the top
\* of the modelled chain, where a next block exists) does return.
C19_ClaimBlockingTerminates ==
    /\ []((op = "claim_blocking" /\ pc = "returned" /\ last_preclaim_tx # NoTx) =>
            (result.exc = "none" /\ status = CLAIMED))
    /\ (op = "claim_blocking" /\ pc = "waiting" /\ last_preclaim_tx # NoTx
            /\ wait_from < MaxHeight)
        ~> (op = "claim_blocking" /\ pc = "returned" /\ result.exc = "none"
            /\ status = CLAIMED)

\* claim_blocking has met TooEarlyClaim, waited, and then claimed the name
C19_Witness ==
    /\ op = "claim_blocking" /\ pc = "returned"
    /\ last_preclaim_tx # NoTx
    /\ Has(trace, "TooEarlyClaim")
    /\ Has(trace, "wait_for_next_block")
    /\ result.exc = "none"
    /\ status = CLAIMED
====
